---- MODULE Spec2Model ----
(***************************************************************************)
(* A model of the Wordle engines of bottle.wordle: SimpleWordle (the base  *)
(* engine, simple.py) and Wordle (the rule-constrained engine, wordle.py). *)
(* One engine object is modelled; `variant` names its class.  A word is a  *)
(* sequence of one-character strings, a Tile a record [ch, color], a Hint  *)
(* a sequence of Tiles.  Every public method is one action; `ret` records  *)
(* the last call, its argument and what it returned or raised.  The       *)
(* hard-mode engine NYTWordle (nyt.py) is declared in the source with      *)
(* bodies that raise NotImplementedError; its methods are modelled from    *)
(* their specification on top of the Wordle code they inherit.             *)
(***************************************************************************)
EXTENDS Integers, Sequences, FiniteSets, TLC

VARIABLES variant, hidden_word, num_attempts, has_won, guess_history,
          max_attempts, valid_chars, dictionary, hints, difficulty, ret

vars == <<variant, hidden_word, num_attempts, has_won, guess_history,
          max_attempts, valid_chars, dictionary, hints, difficulty, ret>>

\* The attributes of the game the player sees changing.
game == <<hidden_word, num_attempts, has_won, guess_history, hints>>
\* The attributes fixed at construction.
config == <<variant, max_attempts, valid_chars, dictionary>>

(***************************************************************************)
(* Bounds of the model.                                                    *)
(***************************************************************************)
\* Longest word (hidden word or guess) of the game specifications.
MaxLen == 2
\* Most accepted attempts explored in an engine without a reachable cap,
\* and the largest max_attempts configured.
MaxAttempts == 2
\* Longest word handed to the comparison algorithm in SpecAlgorithm.
MaxAlgLen == 3

Alphabet == {"A", "B"}

WordsUpTo(n) == UNION {[1..k -> Alphabet] : k \in 0..n}
Words == WordsUpTo(MaxLen)
AlgWords == WordsUpTo(MaxAlgLen)

\* max_attempts is any int: negative, zero and positive caps.
Caps == (-1)..MaxAttempts
ValidCharSets == {{}, {"A"}, Alphabet}
Dictionaries == {{}, {w \in Words : w # <<>> /\ w[1] = "A"}}

(***************************************************************************)
(* tile.py and errors.py: the integer codes.                               *)
(***************************************************************************)
GREEN == 0
YELLOW == 1
GRAY == 2
BLACK == 3

NoError == 0
InvalidWordError == 1
NoAttemptsError == 2
GuessLengthError == 3
UnusedHintError == 4

\* nyt.py: the difficulty modes.
NORMAL_MODE == 0
HARD_MODE == 1

Tile(ch, color) == [ch |-> ch, color |-> color]

(***************************************************************************)
(* Python dict[str, int] as a function on its key set.                     *)
(***************************************************************************)
EmptyDict == [k \in {} |-> 0]
DictGet(d, k, default) == IF k \in DOMAIN d THEN d[k] ELSE default
DictSet(d, k, v) == [x \in DOMAIN d \cup {k} |-> IF x = k THEN v ELSE d[x]]

Min(a, b) == IF a < b THEN a ELSE b

(***************************************************************************)
(* SimpleWordle.algorithm, as a function of the hidden word and the guess. *)
(* The result is the hint and whether the call sets has_won.               *)
(***************************************************************************)
\* hint: Hint = [Tile(ch, GRAY) for ch in guess]
InitialHint(guess) == [i \in 1..Len(guess) |-> Tile(guess[i], GRAY)]

\* for i in range(min_length): green on an exact match, else count hidden[i].
RECURSIVE Pass1(_, _, _, _, _)
Pass1(hidden, guess, i, hint, hidden_map) ==
    IF i > Min(Len(guess), Len(hidden))
    THEN [hint |-> hint, hidden_map |-> hidden_map]
    ELSE LET ch == hidden[i] IN
         IF guess[i] = ch
         THEN Pass1(hidden, guess, i + 1,
                    [hint EXCEPT ![i].color = GREEN], hidden_map)
         ELSE Pass1(hidden, guess, i + 1, hint,
                    DictSet(hidden_map, ch, DictGet(hidden_map, ch, 0) + 1))

\* Mutant of Pass2: a yellow does not use up an occurrence in the hidden word.
RECURSIVE Pass2_no_decrement(_, _, _, _)
Pass2_no_decrement(guess, i, hint, hidden_map) ==
    IF i > Len(guess)
    THEN hint
    ELSE IF hint[i].color # GRAY
         THEN Pass2_no_decrement(guess, i + 1, hint, hidden_map)
         ELSE IF DictGet(hidden_map, guess[i], 0) > 0
              THEN Pass2_no_decrement(guess, i + 1,
                       [hint EXCEPT ![i].color = YELLOW], hidden_map)
              ELSE Pass2_no_decrement(guess, i + 1, hint, hidden_map)

\* for i in range(len(guess)): yellow while the count of guess[i] lasts.
RECURSIVE Pass2(_, _, _, _)
Pass2(guess, i, hint, hidden_map) ==
    IF i > Len(guess)
    THEN hint
    ELSE IF hint[i].color # GRAY
         THEN Pass2(guess, i + 1, hint, hidden_map)
         ELSE LET ch == guess[i] IN
              IF DictGet(hidden_map, ch, 0) > 0
              THEN Pass2(guess, i + 1, [hint EXCEPT ![i].color = YELLOW],
                         [hidden_map EXCEPT ![ch] = @ - 1])
              ELSE Pass2(guess, i + 1, hint, hidden_map)

algorithm(hidden, guess) ==
    LET p1 == Pass1(hidden, guess, 1, InitialHint(guess), EmptyDict) IN
    IF DOMAIN p1.hidden_map = {}
    THEN [hint |-> p1.hint, won |-> TRUE]
    ELSE [hint |-> Pass2(guess, 1, p1.hint, p1.hidden_map), won |-> FALSE]

(***************************************************************************)
(* validate and unplayable, per class, and their dispatch on the class.    *)
(***************************************************************************)
SimpleWordle_validate(word) == Len(word) # 0

Wordle_validate(word) ==
    LET all_chars_valid == \/ valid_chars = {}
                           \/ \A i \in 1..Len(word) : word[i] \in valid_chars
        in_dict == \/ dictionary = {}
                   \/ word \in dictionary
    IN all_chars_valid /\ in_dict

\* The classes that inherit Wordle's methods.
IsWordle == variant \in {"Wordle", "NYTWordle"}

validate(word) ==
    IF IsWordle THEN Wordle_validate(word)
    ELSE SimpleWordle_validate(word)

\* Mutant of SimpleWordle_unplayable: the base engine checks the length too.
SimpleWordle_unplayable_checks_length(word) ==
    IF ~validate(word) THEN InvalidWordError
    ELSE IF Len(word) # Len(hidden_word) THEN GuessLengthError
    ELSE NoError

SimpleWordle_unplayable(word) ==
    IF ~validate(word) THEN InvalidWordError ELSE NoError

\* Mutant of Wordle_unplayable: the length of the guess is never checked.
Wordle_unplayable_no_length_check(word) ==
    IF num_attempts = max_attempts THEN NoAttemptsError
    ELSE IF ~validate(word) THEN InvalidWordError
    ELSE NoError

\* Mutant of Wordle_unplayable: the attempt cap is never checked.
Wordle_unplayable_no_cap(word) ==
    IF Len(word) # Len(hidden_word) THEN GuessLengthError
    ELSE IF ~validate(word) THEN InvalidWordError
    ELSE NoError

\* Mutant of Wordle_unplayable: the length is checked before the cap.
Wordle_unplayable_length_first(word) ==
    IF Len(word) # Len(hidden_word) THEN GuessLengthError
    ELSE IF num_attempts = max_attempts THEN NoAttemptsError
    ELSE IF ~validate(word) THEN InvalidWordError
    ELSE NoError

\* Mutant of Wordle_unplayable: the content is checked before the length.
Wordle_unplayable_validate_first(word) ==
    IF num_attempts = max_attempts THEN NoAttemptsError
    ELSE IF ~validate(word) THEN InvalidWordError
    ELSE IF Len(word) # Len(hidden_word) THEN GuessLengthError
    ELSE NoError

Wordle_unplayable(word) ==
    IF num_attempts = max_attempts THEN NoAttemptsError
    ELSE IF Len(word) # Len(hidden_word) THEN GuessLengthError
    ELSE IF ~validate(word) THEN InvalidWordError
    ELSE NoError

\* NYTWordle.unplayable, hard mode: the word uses every revealed hint, a
\* GREEN character at its position and a YELLOW character somewhere.
UsesRevealedHints(word) ==
    \A n \in 1..Len(guess_history) :
        \A p \in 1..Len(guess_history[n]) :
            LET tile == guess_history[n][p] IN
            /\ tile.color = GREEN
                   => (p <= Len(word) /\ word[p] = tile.ch)
            /\ tile.color = YELLOW
                   => \E q \in 1..Len(word) : word[q] = tile.ch

\* Mutant of NYTWordle_unplayable: hard mode checks nothing more than normal.
NYTWordle_unplayable_normal_only(word) ==
    Wordle_unplayable(word)

\* NYTWordle.unplayable: the rules of normal mode, then in hard mode the
\* revealed hints.
NYTWordle_unplayable(word) ==
    LET errno == Wordle_unplayable(word) IN
    IF errno # NoError THEN errno
    ELSE IF difficulty = HARD_MODE /\ ~UsesRevealedHints(word)
         THEN UnusedHintError
    ELSE NoError

unplayable(word) ==
    IF variant = "NYTWordle" THEN NYTWordle_unplayable(word)
    ELSE IF variant = "Wordle" THEN Wordle_unplayable(word)
    ELSE SimpleWordle_unplayable(word)

(***************************************************************************)
(* The record of the last call: the method, its argument, whether it      *)
(* raised ValueError, the WordleError behind the raise, and the Hint       *)
(* returned.  The two queries record the method only: what they return is  *)
(* validate(word) and unplayable(word) in the state they are called in.    *)
(***************************************************************************)
Ret(op, arg, errno, raised, hint) ==
    [op |-> op, arg |-> arg, errno |-> errno, raised |-> raised,
     hint |-> hint, value |-> FALSE]

\* The record of a call that returned a bool.
RetBool(op, arg, value) ==
    [Ret(op, arg, NoError, FALSE, <<>>) EXCEPT !.value = value]

(***************************************************************************)
(* Construction: SimpleWordle(hidden_word) and                             *)
(* Wordle(hidden_word, max_attempts, valid_chars, dictionary), for the     *)
(* arguments with which the constructor does not raise.                    *)
(***************************************************************************)
InitEngine(words) ==
    /\ variant \in {"SimpleWordle", "Wordle"}
    /\ IF variant = "Wordle"
       THEN /\ max_attempts \in Caps
            /\ valid_chars \in ValidCharSets
            /\ dictionary \in Dictionaries
            /\ hints = [ch \in valid_chars |-> BLACK]
       ELSE /\ max_attempts = 0
            /\ valid_chars = {}
            /\ dictionary = {}
            /\ hints = EmptyDict
    /\ hidden_word \in words
    /\ validate(hidden_word)
    /\ num_attempts = 0
    /\ has_won = FALSE
    /\ guess_history = <<>>
    /\ difficulty = NORMAL_MODE
    /\ ret = Ret("init", hidden_word, NoError, FALSE, <<>>)

Init == InitEngine(Words)

(***************************************************************************)
(* The public methods.                                                     *)
(***************************************************************************)
\* Mutant of AttemptRejected: the rejected guess still costs an attempt.
AttemptRejected_consumes_attempt(guess, errno) ==
    /\ ret' = Ret("attempt", guess, errno, TRUE, <<>>)
    /\ num_attempts' = num_attempts + 1
    /\ UNCHANGED <<hidden_word, has_won, guess_history, hints>>

\* _is_playable raises ValueError before attempt has touched anything.
AttemptRejected(guess, errno) ==
    /\ ret' = Ret("attempt", guess, errno, TRUE, <<>>)
    /\ UNCHANGED game

\* Mutant of AttemptAccepted: every character of the guess gets the marker of
\* its last tile in hints, whatever hints held before.
AttemptAccepted_overwrites_hints(guess) ==
    LET r == algorithm(hidden_word, guess)
        last(c) == CHOOSE i \in 1..Len(guess) :
                       /\ guess[i] = c
                       /\ \A j \in (i + 1)..Len(guess) : guess[j] # c
    IN /\ has_won' = (has_won \/ r.won)
       /\ guess_history' = Append(guess_history, r.hint)
       /\ num_attempts' = num_attempts + 1
       /\ ret' = Ret("attempt", guess, NoError, FALSE, r.hint)
       /\ hints' = [c \in DOMAIN hints |->
                       IF \E i \in 1..Len(guess) : guess[i] = c
                       THEN r.hint[last(c)].color ELSE hints[c]]
       /\ UNCHANGED hidden_word

\* Mutant of AttemptAccepted: has_won is assigned on every call, not only set.
AttemptAccepted_overwrites_won(guess) ==
    LET r == algorithm(hidden_word, guess) IN
    /\ has_won' = r.won
    /\ guess_history' = Append(guess_history, r.hint)
    /\ num_attempts' = num_attempts + 1
    /\ ret' = Ret("attempt", guess, NoError, FALSE, r.hint)
    /\ UNCHANGED <<hidden_word, hints>>

\* Mutant of AttemptAccepted: the new hint replaces the history.
AttemptAccepted_replaces_history(guess) ==
    LET r == algorithm(hidden_word, guess) IN
    /\ has_won' = (has_won \/ r.won)
    /\ guess_history' = <<r.hint>>
    /\ num_attempts' = num_attempts + 1
    /\ ret' = Ret("attempt", guess, NoError, FALSE, r.hint)
    /\ UNCHANGED <<hidden_word, hints>>

\* hint = self.algorithm(guess); append; num_attempts += 1; return hint
AttemptAccepted(guess) ==
    LET r == algorithm(hidden_word, guess) IN
    /\ has_won' = (has_won \/ r.won)
    /\ guess_history' = Append(guess_history, r.hint)
    /\ num_attempts' = num_attempts + 1
    /\ ret' = Ret("attempt", guess, NoError, FALSE, r.hint)
    /\ UNCHANGED <<hidden_word, hints>>

attempt(guess) ==
    LET errno == unplayable(guess) IN
    /\ errno # NoError \/ num_attempts < MaxAttempts
    /\ IF errno # NoError
       THEN AttemptRejected(guess, errno)
       ELSE AttemptAccepted(guess)
    /\ UNCHANGED <<config, difficulty>>

\* Mutant of ResetRejected: the game is cleared before the word is validated.
ResetRejected_clears_first(word) ==
    /\ ret' = Ret("reset", word, InvalidWordError, TRUE, <<>>)
    /\ num_attempts' = 0
    /\ has_won' = FALSE
    /\ guess_history' = <<>>
    /\ UNCHANGED <<hidden_word, hints>>

\* raise ValueError: the new word failed validate, nothing was assigned.
ResetRejected(word) ==
    /\ ret' = Ret("reset", word, InvalidWordError, TRUE, <<>>)
    /\ UNCHANGED game

\* Mutant of ResetAccepted: has_won is not cleared.
ResetAccepted_keeps_won(word) ==
    /\ hidden_word' = word
    /\ num_attempts' = 0
    /\ UNCHANGED has_won
    /\ guess_history' = <<>>
    /\ hints' = [ch \in DOMAIN hints |-> BLACK]
    /\ ret' = Ret("reset", word, NoError, FALSE, <<>>)

\* Mutant of ResetAccepted: guess_history is not cleared.
ResetAccepted_keeps_history(word) ==
    /\ hidden_word' = word
    /\ num_attempts' = 0
    /\ has_won' = FALSE
    /\ UNCHANGED guess_history
    /\ hints' = [ch \in DOMAIN hints |-> BLACK]
    /\ ret' = Ret("reset", word, NoError, FALSE, <<>>)

\* SimpleWordle.reset, then Wordle.reset's loop over hints.keys().
ResetAccepted(word) ==
    /\ hidden_word' = word
    /\ num_attempts' = 0
    /\ has_won' = FALSE
    /\ guess_history' = <<>>
    /\ hints' = [ch \in DOMAIN hints |-> BLACK]
    /\ ret' = Ret("reset", word, NoError, FALSE, <<>>)

\* Mutant of reset: the new hidden word is not validated.
reset_without_validate(word) ==
    /\ ResetAccepted(word)
    /\ UNCHANGED <<config, difficulty>>

reset(word) ==
    /\ IF ~validate(word)
       THEN ResetRejected(word)
       ELSE ResetAccepted(word)
    /\ UNCHANGED <<config, difficulty>>

\* Mutant of Validate: a validated word is remembered as the hidden word.
Validate_keeps_word(word) ==
    /\ ret' = Ret("validate", <<>>, NoError, FALSE, <<>>)
    /\ hidden_word' = word
    /\ UNCHANGED <<num_attempts, has_won, guess_history, hints, config,
                   difficulty>>

Validate(word) ==
    /\ ret' = Ret("validate", <<>>, NoError, FALSE, <<>>)
    /\ UNCHANGED <<game, config, difficulty>>

Unplayable(word) ==
    /\ ret' = Ret("unplayable", <<>>, NoError, FALSE, <<>>)
    /\ UNCHANGED <<game, config, difficulty>>

Next ==
    \/ \E guess \in Words : attempt(guess)
    \/ \E word \in Words : reset(word)
    \/ \E word \in Words : Validate(word)
    \/ \E word \in Words : Unplayable(word)

Spec == Init /\ [][Next]_vars

(***************************************************************************)
(* The comparison algorithm on its own: engines with hidden words up to    *)
(* MaxAlgLen, and the public method algorithm(guess) called directly.  It  *)
(* returns the hint and sets has_won; nothing else is touched.             *)
(***************************************************************************)
AlgorithmCall(guess) ==
    LET r == algorithm(hidden_word, guess) IN
    /\ has_won' = (has_won \/ r.won)
    /\ ret' = Ret("algorithm", guess, NoError, FALSE, r.hint)
    /\ UNCHANGED <<hidden_word, num_attempts, guess_history, hints, config,
                   difficulty>>

InitAlgorithm == InitEngine(AlgWords)

NextAlgorithm == \E guess \in AlgWords : AlgorithmCall(guess)

SpecAlgorithm == InitAlgorithm /\ [][NextAlgorithm]_vars

(***************************************************************************)
(* The hard-mode engine: NYTWordle(hidden_word, max_attempts, valid_chars, *)
(* dictionary) starts as a Wordle in normal mode.  Its attempt is Wordle's *)
(* attempt with NYTWordle.unplayable behind _is_playable, its reset is the *)
(* inherited one, and change_difficulty is its own.                        *)
(***************************************************************************)
DifficultyModes == {NORMAL_MODE, HARD_MODE}

\* Mutant of change_difficulty: the mode can be changed in mid-game.
change_difficulty_mid_game(mode) ==
    /\ difficulty' = mode
    /\ ret' = RetBool("change_difficulty", <<mode>>, TRUE)
    /\ UNCHANGED <<game, config>>

\* NYTWordle.change_difficulty: True and the mode set before the first
\* attempt of a game, False and nothing done after it.
change_difficulty(mode) ==
    /\ IF num_attempts = 0
       THEN /\ difficulty' = mode
            /\ ret' = RetBool("change_difficulty", <<mode>>, TRUE)
       ELSE /\ UNCHANGED difficulty
            /\ ret' = RetBool("change_difficulty", <<mode>>, FALSE)
    /\ UNCHANGED <<game, config>>

InitNYT ==
    /\ variant = "NYTWordle"
    /\ max_attempts \in Caps
    /\ valid_chars \in ValidCharSets
    /\ dictionary = {}
    /\ hints = [ch \in valid_chars |-> BLACK]
    /\ hidden_word \in Words
    /\ validate(hidden_word)
    /\ num_attempts = 0
    /\ has_won = FALSE
    /\ guess_history = <<>>
    /\ difficulty = NORMAL_MODE
    /\ ret = Ret("init", hidden_word, NoError, FALSE, <<>>)

NextNYT ==
    \/ \E guess \in Words : attempt(guess)
    \/ \E word \in Words : reset(word)
    \/ \E mode \in DifficultyModes : change_difficulty(mode)

SpecNYT == InitNYT /\ [][NextNYT]_vars

(***************************************************************************)
(* Wordle.suggestions(chars): the method is declared with its contract and *)
(* its body raises NotImplementedError, so a call returns nothing and      *)
(* touches nothing.  The record of the call has raised set and no          *)
(* WordleError behind it.  Engines are Wordle engines, in any state that   *)
(* attempts lead to.                                                       *)
(***************************************************************************)
suggestions(chars) ==
    /\ ret' = Ret("suggestions", chars, NoError, TRUE, <<>>)
    /\ UNCHANGED <<game, config, difficulty>>

InitSuggestions == InitEngine(Words) /\ variant = "Wordle"

NextSuggestions ==
    \/ \E chars \in Words : suggestions(chars)
    \/ \E guess \in Words : attempt(guess)

SpecSuggestions == InitSuggestions /\ [][NextSuggestions]_vars

(***************************************************************************)
(* scripts/playwordle.py: playwordle(wordle) on a fresh Wordle engine.     *)
(* One step of the loop tests the condition, reads a guess and calls       *)
(* attempt; a ValueError is caught and printed and the loop goes on.  When *)
(* the condition fails the function prints the hidden word and returns,    *)
(* which is recorded as the last call.  The player goes on to enter        *)
(* playable guesses and the program goes on to run: weak fairness on both. *)
(***************************************************************************)
\* Mutant of LoopCondition: the loop goes on after a win.
LoopCondition_ignores_win == num_attempts # max_attempts

\* while not wordle.has_won and wordle.num_attempts != wordle.max_attempts
LoopCondition == ~has_won /\ num_attempts # max_attempts

Returned == ret.op = "playwordle"

playwordle_loop(guess) ==
    /\ ~Returned
    /\ LoopCondition
    /\ attempt(guess)

playwordle_return ==
    /\ ~Returned
    /\ ~LoopCondition
    /\ ret' = Ret("playwordle", hidden_word, NoError, FALSE, <<>>)
    /\ UNCHANGED <<game, config, difficulty>>

\* The player enters a guess that the engine accepts.
PlayableGuess ==
    \E guess \in Words :
        /\ unplayable(guess) = NoError
        /\ playwordle_loop(guess)

InitDriver == InitEngine(Words) /\ variant = "Wordle"

NextDriver ==
    \/ \E guess \in Words : playwordle_loop(guess)
    \/ playwordle_return

SpecDriver ==
    /\ InitDriver
    /\ [][NextDriver]_vars
    /\ WF_vars(PlayableGuess)
    /\ WF_vars(playwordle_return)

(***************************************************************************)
(* Vocabulary of the properties.                                           *)
(***************************************************************************)
RuleConstrained == variant = "Wordle"

\* The guess a hint was produced for.
Spelling(hint) == [i \in 1..Len(hint) |-> hint[i].ch]
Colors(hint) == [i \in 1..Len(hint) |-> hint[i].color]
AllCorrect(hint) == \A i \in 1..Len(hint) : hint[i].color = GREEN

Chars(word) == {word[i] : i \in 1..Len(word)}
Word5(a, b, c, d, e) == <<a, b, c, d, e>>

\* A step that is a reset which did not raise.
SuccessfulReset ==
    ret'.op = "reset" /\ ~ret'.raised /\ validate(ret'.arg) /\ reset(ret'.arg)

(***************************************************************************)
(* C1  No mutation on rejection: in the base and the rule-constrained      *)
(* engine, whenever unplayable(g) is not NoError, attempt(g) raises with   *)
(* the error kind unplayable(g) reports, returns no hint, and leaves       *)
(* hidden_word, num_attempts, guess_history, has_won and hints unchanged.  *)
(***************************************************************************)
\* An attempt(g) step records g in ret', so g = ret'.arg covers every g.
C1_NoMutationOnRejection ==
    [][LET g == ret'.arg IN
       (ret'.op = "attempt" /\ unplayable(g) # NoError /\ attempt(g))
           => /\ ret'.raised
              /\ ret'.errno = unplayable(g)
              /\ ret'.hint = <<>>
              /\ UNCHANGED game]_vars

\* A guess of the wrong length was rejected after two accepted attempts.
C1_Witness ==
    /\ ret.op = "attempt"
    /\ ret.raised
    /\ ret.errno = GuessLengthError
    /\ num_attempts = 2
    /\ Len(guess_history) = 2

(***************************************************************************)
(* C2  Duplicate-letter semantics of algorithm(guess) for a guess as long  *)
(* as the hidden word: position i is correct iff guess[i] = hidden[i]; for *)
(* each character c the number of present marks on c is the smaller of the *)
(* number of non-correct occurrences of c in the guess and the number of   *)
(* unmatched occurrences of c in the hidden word; the present marks are on *)
(* the leftmost non-correct occurrences of c; every other position is      *)
(* absent.  GAMER/EARLY and ALLOY/LLAMA both give present, correct,        *)
(* present, absent, absent.                                                *)
(***************************************************************************)
NonCorrect(hidden, guess) == {i \in 1..Len(guess) : guess[i] # hidden[i]}

MarkerSemantics(hidden, guess, hint) ==
    LET open == NonCorrect(hidden, guess)
        yellow(c) == {i \in open : guess[i] = c /\ hint[i].color = YELLOW}
    IN /\ Spelling(hint) = guess
       /\ \A i \in 1..Len(guess) :
             /\ hint[i].color \in {GREEN, YELLOW, GRAY}
             /\ hint[i].color = GREEN <=> guess[i] = hidden[i]
       /\ \A c \in Chars(guess) \cup Chars(hidden) :
             Cardinality(yellow(c)) =
                 Min(Cardinality({i \in open : guess[i] = c}),
                     Cardinality({i \in open : hidden[i] = c}))
       /\ \A i, j \in open :
             (i < j /\ guess[i] = guess[j] /\ hint[j].color = YELLOW)
                 => hint[i].color = YELLOW

C2_DuplicateLetterSemantics ==
    /\ (ret.op = "algorithm" /\ Len(ret.arg) = Len(hidden_word))
           => MarkerSemantics(hidden_word, ret.arg, ret.hint)
    /\ Colors(algorithm(Word5("G", "A", "M", "E", "R"),
                        Word5("E", "A", "R", "L", "Y")).hint)
           = Word5(YELLOW, GREEN, YELLOW, GRAY, GRAY)
    /\ Colors(algorithm(Word5("A", "L", "L", "O", "Y"),
                        Word5("L", "L", "A", "M", "A")).hint)
           = Word5(YELLOW, GREEN, YELLOW, GRAY, GRAY)

\* Hidden BBA, guess AAB: two non-correct A against one unmatched A, the
\* left one is credited.
C2_Witness ==
    /\ ret.op = "algorithm"
    /\ hidden_word = <<"B", "B", "A">>
    /\ ret.arg = <<"A", "A", "B">>
    /\ Colors(ret.hint) = <<YELLOW, GRAY, YELLOW>>

(***************************************************************************)
(* C3  has_won is true if and only if some hint in guess_history consists  *)
(* only of correct tiles, in every variant, the base variant with guesses  *)
(* shorter or longer than the hidden word included.                        *)
(***************************************************************************)
C3_WonIffAllCorrectHint ==
    has_won <=> \E n \in 1..Len(guess_history) : AllCorrect(guess_history[n])

(***************************************************************************)
(* C4  has_won is true if and only if some guess accepted since            *)
(* construction or the last successful reset is equal to hidden_word.      *)
(***************************************************************************)
C4_WonIffHiddenWordGuessed ==
    has_won <=> \E n \in 1..Len(guess_history) :
                    Spelling(guess_history[n]) = hidden_word

(***************************************************************************)
(* C5  Win is sticky: once has_won is true, every step other than a        *)
(* successful reset (accepted or rejected attempts, winning or not,        *)
(* validate and unplayable calls, failed resets) leaves it true.           *)
(***************************************************************************)
C5_WinIsSticky ==
    [][(has_won /\ ~SuccessfulReset) => has_won']_vars

\* A win, then an accepted guess that does not win, then a rejected guess.
C5_Witness ==
    /\ has_won
    /\ Len(guess_history) = 2
    /\ Spelling(guess_history[1]) = hidden_word
    /\ ~AllCorrect(guess_history[2])
    /\ ret.op = "attempt"
    /\ ret.raised

(***************************************************************************)
(* C6  num_attempts = len(guess_history) in every reachable state of every *)
(* variant, after accepted and rejected attempts and successful and failed *)
(* resets.                                                                 *)
(***************************************************************************)
C6_AttemptsCountHistory ==
    num_attempts = Len(guess_history)

\* A reset that failed after two accepted attempts.
C6_Witness ==
    /\ ret.op = "reset"
    /\ ret.raised
    /\ num_attempts = 2

(***************************************************************************)
(* C7  In the rule-constrained engine with a cap configured (max_attempts  *)
(* a non-negative integer), num_attempts <= max_attempts in every          *)
(* reachable state.                                                        *)
(***************************************************************************)
CapConfigured == RuleConstrained /\ max_attempts >= 0

C7_AttemptsWithinCap ==
    CapConfigured => num_attempts <= max_attempts

\* The cap of 1 is reached and a further attempt was turned away.
C7_Witness ==
    /\ CapConfigured
    /\ max_attempts = 1
    /\ num_attempts = max_attempts
    /\ ret.op = "attempt"
    /\ ret.errno = NoAttemptsError

(***************************************************************************)
(* C8  Attempt exhaustion: in the rule-constrained engine, once            *)
(* num_attempts has reached max_attempts, attempt(g) is rejected with      *)
(* NoAttemptsError and produces no hint for every g, the hidden word       *)
(* included, and the engine stays exhausted until a successful reset.      *)
(***************************************************************************)
NoAttemptsRemain == CapConfigured /\ num_attempts >= max_attempts

C8_AttemptExhaustion ==
    [][/\ LET g == ret'.arg IN
          (ret'.op = "attempt" /\ NoAttemptsRemain /\ attempt(g))
              => /\ ret'.raised
                 /\ ret'.errno = NoAttemptsError
                 /\ ret'.hint = <<>>
                 /\ guess_history' = guess_history
       /\ (NoAttemptsRemain /\ ~SuccessfulReset) => NoAttemptsRemain']_vars

\* With the cap reached and no win, the hidden word itself was rejected.
C8_Witness ==
    /\ NoAttemptsRemain
    /\ max_attempts >= 1
    /\ ~has_won
    /\ ret.op = "attempt"
    /\ ret.arg = hidden_word
    /\ ret.raised
    /\ ret.errno = NoAttemptsError

(***************************************************************************)
(* C9  Error precedence of the rule-constrained unplayable(word):          *)
(* NoAttemptsError whenever no attempts remain, whatever the word; else    *)
(* GuessLengthError whenever len(word) # len(hidden_word), whatever its    *)
(* content; else InvalidWordError iff validate(word) is false; else        *)
(* NoError.                                                                *)
(***************************************************************************)
C9_ErrorPrecedence ==
    RuleConstrained =>
        \A word \in Words :
            unplayable(word) =
                IF NoAttemptsRemain THEN NoAttemptsError
                ELSE IF Len(word) # Len(hidden_word) THEN GuessLengthError
                ELSE IF ~validate(word) THEN InvalidWordError
                ELSE NoError

\* With attempts remaining, a guess both of the wrong length and invalid was
\* reported as a length error.
C9_Witness ==
    /\ RuleConstrained
    /\ num_attempts = 1
    /\ ret.op = "attempt"
    /\ ret.errno = GuessLengthError
    /\ ~validate(ret.arg)

(***************************************************************************)
(* C10  The rule-constrained validate(word) is true if and only if word is *)
(* non-empty, and valid_chars is empty or holds every character of word,  *)
(* and dictionary is empty or holds word.                                  *)
(***************************************************************************)
C10_ValidateRuleConstrained ==
    RuleConstrained =>
        \A word \in Words :
            validate(word) <=>
                /\ Len(word) # 0
                /\ valid_chars = {} \/ Chars(word) \subseteq valid_chars
                /\ dictionary = {} \/ word \in dictionary

(***************************************************************************)
(* C11  hidden_word is never empty: in the base and the rule-constrained   *)
(* engine construction with, and reset to, an empty word fail, so every    *)
(* reachable state has len(hidden_word) >= 1.                              *)
(***************************************************************************)
C11_HiddenWordNeverEmpty ==
    Len(hidden_word) >= 1

(***************************************************************************)
(* C12  Cumulative hint folding: in the rule-constrained engine, for each  *)
(* character c of the valid-character set, hints[c] is the strongest       *)
(* marker (correct > present > absent > unset) carried by any tile for c   *)
(* in any hint of guess_history, and unset iff no accepted guess since the *)
(* last reset used c.                                                      *)
(***************************************************************************)
\* The colour codes are ordered the other way round: GREEN is the smallest.
AtLeastAsStrong(a, b) == a <= b

TilesOf(c) ==
    UNION {{guess_history[n][i] : i \in {j \in 1..Len(guess_history[n]) :
                                          guess_history[n][j].ch = c}} :
           n \in 1..Len(guess_history)}

StrongestMarker(c) ==
    LET seen == {t.color : t \in TilesOf(c)} \cup {BLACK}
    IN CHOOSE m \in seen : \A k \in seen : AtLeastAsStrong(m, k)

C12_CumulativeHintFolding ==
    RuleConstrained =>
        \A c \in DOMAIN hints :
            /\ hints[c] = StrongestMarker(c)
            /\ hints[c] = BLACK <=> TilesOf(c) = {}

(***************************************************************************)
(* C13  Monotonic hints: apart from a successful reset, no step (accepted  *)
(* or rejected attempt, validate, unplayable, failed reset) changes a      *)
(* character's entry in hints to a weaker marker under                     *)
(* correct > present > absent > unset.                                     *)
(***************************************************************************)
C13_MonotonicHints ==
    [][~SuccessfulReset =>
           \A c \in DOMAIN hints :
               /\ c \in DOMAIN hints'
               /\ AtLeastAsStrong(hints'[c], hints[c])]_vars

\* Two accepted guesses, each with a tile for a character that hints tracks.
C13_Witness ==
    /\ RuleConstrained
    /\ Len(guess_history) = 2
    /\ \A n \in 1..2 :
          \E i \in 1..Len(guess_history[n]) :
              guess_history[n][i].ch \in DOMAIN hints
    /\ guess_history[1] # guess_history[2]

(***************************************************************************)
(* C14  Reset scope: a successful reset(w) leaves hidden_word = w,         *)
(* num_attempts = 0, has_won false, guess_history empty and every entry of *)
(* hints unset, and keeps max_attempts, valid_chars, dictionary and the    *)
(* key set of hints.                                                       *)
(***************************************************************************)
C14_ResetScope ==
    [][SuccessfulReset =>
           /\ hidden_word' = ret'.arg
           /\ num_attempts' = 0
           /\ has_won' = FALSE
           /\ guess_history' = <<>>
           /\ \A c \in DOMAIN hints' : hints'[c] = BLACK
           /\ DOMAIN hints' = DOMAIN hints
           /\ UNCHANGED <<max_attempts, valid_chars, dictionary>>]_vars

\* A rule-constrained engine with tracked characters and a cap, right after
\* a reset to a word of length 2.
C14_Witness ==
    /\ RuleConstrained
    /\ ret.op = "reset"
    /\ ~ret.raised
    /\ hidden_word = ret.arg
    /\ DOMAIN hints = Alphabet
    /\ max_attempts = 1
    /\ Len(hidden_word) = 2

(***************************************************************************)
(* C15  Failed reset is atomic: when the new word fails validate, reset    *)
(* raises an invalid-word error and leaves hidden_word, num_attempts,      *)
(* has_won, guess_history and hints as they were, in both engines.         *)
(***************************************************************************)
C15_FailedResetAtomic ==
    [][LET word == ret'.arg IN
       (ret'.op = "reset" /\ ~validate(word) /\ reset(word))
           => /\ ret'.raised
              /\ ret'.errno = InvalidWordError
              /\ UNCHANGED game]_vars

\* A won rule-constrained game with history, after a reset that raised.
C15_Witness ==
    /\ RuleConstrained
    /\ ret.op = "reset"
    /\ ret.raised
    /\ has_won
    /\ Len(guess_history) >= 1
    /\ DOMAIN hints # {}

(***************************************************************************)
(* C16  In the rule-constrained engine every hint in guess_history is as   *)
(* long as hidden_word, in every reachable state, resets to a hidden word  *)
(* of another length included.                                             *)
(***************************************************************************)
C16_HintLengthIsWordLength ==
    RuleConstrained =>
        \A n \in 1..Len(guess_history) :
            Len(guess_history[n]) = Len(hidden_word)

\* Two hints of length 2 in the history, and a guess of another length
\* refused.
C16_Witness ==
    /\ RuleConstrained
    /\ Len(hidden_word) = 2
    /\ Len(guess_history) = 2
    /\ ret.op = "attempt"
    /\ ret.errno = GuessLengthError

\* The hard-mode engine in hard mode.
HardMode == variant = "NYTWordle" /\ difficulty = HARD_MODE

\* An accepted guess of this game yielded GREEN at position p for a
\* character that word does not have at p.
LacksCorrect(word) ==
    \E n \in 1..Len(guess_history) : \E p \in 1..Len(guess_history[n]) :
        /\ guess_history[n][p].color = GREEN
        /\ ~(p \in 1..Len(word) /\ word[p] = guess_history[n][p].ch)

\* An accepted guess of this game yielded YELLOW for a character that word
\* does not contain.
LacksPresent(word) ==
    \E n \in 1..Len(guess_history) : \E p \in 1..Len(guess_history[n]) :
        /\ guess_history[n][p].color = YELLOW
        /\ guess_history[n][p].ch \notin Chars(word)

QueryStep == ret'.op \in {"validate", "unplayable"}

C19_QueriesArePure ==
    [][QueryStep => UNCHANGED <<game, config, difficulty>>]_vars

\* A query was called on a won game with two attempts in its history.
C19_Witness ==
    /\ ret.op \in {"validate", "unplayable"}
    /\ has_won
    /\ num_attempts = 2
    /\ Len(guess_history) = 2

(***************************************************************************)
(* C20  The base engine is unrestricted: in every reachable state, before  *)
(* or after a win, attempt(g) is accepted for every non-empty g of any     *)
(* length and rejected, with InvalidWordError, only for the empty guess.   *)
(***************************************************************************)
BaseEngine == variant = "SimpleWordle"

C20_BaseEngineUnrestricted ==
    [][(BaseEngine /\ ret'.op = "attempt") =>
           /\ \A g \in Words :
                 unplayable(g) = IF Len(g) = 0 THEN InvalidWordError
                                 ELSE NoError
           /\ LET g == ret'.arg IN
              attempt(g) =>
                  IF Len(g) = 0
                  THEN /\ ret'.raised
                       /\ ret'.errno = InvalidWordError
                       /\ UNCHANGED game
                  ELSE /\ ~ret'.raised
                       /\ Spelling(ret'.hint) = g
                       /\ num_attempts' = num_attempts + 1]_vars

\* After a win, a guess longer than the hidden word was accepted.
C20_Witness ==
    /\ BaseEngine
    /\ has_won
    /\ num_attempts = 2
    /\ ret.op = "attempt"
    /\ ~ret.raised
    /\ Len(ret.arg) > Len(hidden_word)
    /\ AllCorrect(guess_history[1])

(***************************************************************************)
(* C21  In the base engine a tile is absent only when its character does   *)
(* not occur in the hidden word within remaining multiplicity: for every   *)
(* non-empty guess, of any length, and every character c, the number of    *)
(* tiles for c marked correct or present is the smaller of the number of   *)
(* occurrences of c in the guess and in the hidden word.                   *)
(***************************************************************************)
Occurrences(word, c) == Cardinality({i \in 1..Len(word) : word[i] = c})

Credited(hint, c) ==
    Cardinality({i \in 1..Len(hint) :
                    hint[i].ch = c /\ hint[i].color \in {GREEN, YELLOW}})

C21_AbsentOnlyBeyondMultiplicity ==
    (BaseEngine /\ ret.op = "algorithm" /\ ret.arg # <<>>)
        => \A c \in Alphabet :
               Credited(ret.hint, c) =
                   Min(Occurrences(ret.arg, c), Occurrences(hidden_word, c))

(***************************************************************************)
(* C22  suggestions(chars) returns exactly the dictionary words that have, *)
(* for each character, at least as many occurrences as chars has, nothing  *)
(* when the dictionary is empty, and leaves the game state unchanged.  The *)
(* state predicate says what the record of a call must be: a return, not a *)
(* raise, of that set of words.                                            *)
(***************************************************************************)
Suggested(chars) ==
    {word \in dictionary :
        \A c \in Alphabet : Occurrences(word, c) >= Occurrences(chars, c)}

C22_SuggestionsFilterDictionary ==
    ret.op = "suggestions"
        => /\ ~ret.raised
           /\ ret.hint = Suggested(ret.arg)

(***************************************************************************)
(* C23  An accepted attempt(g) appends exactly one hint, of length len(g)  *)
(* and spelling g, at the end of guess_history, returns that same hint,    *)
(* increments num_attempts by exactly 1, and leaves hidden_word,           *)
(* max_attempts, valid_chars, dictionary and the earlier entries of        *)
(* guess_history unchanged.                                                *)
(***************************************************************************)
AcceptedAttemptStep == ret'.op = "attempt" /\ ~ret'.raised

C23_AcceptedAttemptEffect ==
    [][AcceptedAttemptStep =>
           LET n == Len(guess_history) IN
           /\ Len(guess_history') = n + 1
           /\ SubSeq(guess_history', 1, n) = guess_history
           /\ guess_history'[n + 1] = ret'.hint
           /\ Len(ret'.hint) = Len(ret'.arg)
           /\ Spelling(ret'.hint) = ret'.arg
           /\ num_attempts' = num_attempts + 1
           /\ UNCHANGED <<hidden_word, config>>]_vars

\* A second guess has just been accepted after a different first one.
C23_Witness ==
    /\ ret.op = "attempt"
    /\ ~ret.raised
    /\ num_attempts = 2
    /\ Len(guess_history) = 2
    /\ guess_history[2] = ret.hint
    /\ guess_history[1] # guess_history[2]

(***************************************************************************)
(* C24  playwordle calls attempt only while has_won is false and           *)
(* num_attempts # max_attempts; for an engine with a non-negative          *)
(* max_attempts and a player who keeps entering playable guesses the loop  *)
(* eventually exits, after at most max_attempts accepted guesses.          *)
(***************************************************************************)
C24_DriverLoop ==
    /\ [][ret'.op = "attempt"
              => (~has_won /\ num_attempts # max_attempts)]_vars
    /\ [](max_attempts >= 0 => num_attempts <= max_attempts)
    /\ (max_attempts >= 0) ~> Returned

\* The loop was left without a win, after max_attempts = 2 accepted guesses.
C24_Witness ==
    /\ Returned
    /\ ~has_won
    /\ max_attempts = 2
    /\ num_attempts = 2
    /\ Len(guess_history) = 2

(***************************************************************************)
(* C25  The game stays winnable while attempts remain: in every reachable  *)
(* state of the rule-constrained engine with num_attempts < max_attempts,  *)
(* unplayable(hidden_word) is NoError, and attempt(hidden_word) is         *)
(* accepted, returns an all-correct hint and leaves has_won true.          *)
(***************************************************************************)
AttemptsRemain == RuleConstrained /\ num_attempts < max_attempts

C25_HiddenWordStaysPlayable ==
    /\ [](AttemptsRemain => unplayable(hidden_word) = NoError)
    /\ [][(AttemptsRemain /\ ret'.op = "attempt" /\ ret'.arg = hidden_word)
              => /\ ~ret'.raised
                 /\ Spelling(ret'.hint) = hidden_word
                 /\ AllCorrect(ret'.hint)
                 /\ has_won']_vars

\* The hidden word has just been guessed at the second attempt, after a
\* first guess that missed.
C25_Witness ==
    /\ RuleConstrained
    /\ ret.op = "attempt"
    /\ ~ret.raised
    /\ ret.arg = hidden_word
    /\ hidden_word # <<>>
    /\ has_won
    /\ num_attempts = 2
    /\ ~AllCorrect(guess_history[1])

(***************************************************************************)
(* C26  A win is always backed by a recorded attempt: whenever has_won is  *)
(* true, num_attempts >= 1 and guess_history is non-empty, in every state  *)
(* reachable through the public operations, algorithm among them.          *)
(***************************************************************************)
C26_WinBackedByAttempt ==
    has_won => (num_attempts >= 1 /\ guess_history # <<>>)

====
